---- MODULE Spec2Model ----
(***************************************************************************)
(* Ledger / currency-conversion contract of the financial tracker backend. *)
(*                                                                         *)
(* Money is an integer count of minor units.  Request bodies carry amounts *)
(* in major units with decimals; they are modelled as integer thousandths  *)
(* of a major unit so that Math.round(amount * 100) is a real rounding.    *)
(* Exchange rates are decimals with four places; they are modelled as      *)
(* integers scaled by RateScale and every quotient is rounded exactly the  *)
(* way Math.round rounds (half towards +infinity).                         *)
(* Dates are day numbers counted from 2025-06-01.                          *)
(* An optional request field is a set: {} when the field is undefined,     *)
(* {v} when it carries the value v.                                        *)
(***************************************************************************)
EXTENDS Integers, Sequences, FiniteSets, TLC

VARIABLES accounts, transactions, borrowings, initBal, applied, inflight,
          serial, response, now

vars == <<accounts, transactions, borrowings, initBal, applied, inflight,
          serial, response, now>>

----------------------------------------------------------------------------
(* Small helpers of the model *)

Abs(x) == IF x < 0 THEN 0 - x ELSE x

\* Math.round(n / d) for d > 0: the nearest integer, halves towards +infinity
MathRound(n, d) == (2 * n + d) \div (2 * d)

Present(opt) == opt # {}

Val(opt) == CHOOSE v \in opt : TRUE

Restrict(f, S) == [x \in S |-> f[x]]

----------------------------------------------------------------------------
(* currencyConverter.js *)

RateScale == 10000

\* rates are RateScale times the decimal of the source; 0 stands for a
\* currency code that is not a key of the table (rates[code] is undefined)
NoRates == [USD |-> 0, EUR |-> 0, AZN |-> 0, XXX |-> 0]

exchangeRates ==
  [ current    |-> [ rates       |-> [USD |-> 10000, EUR |-> 9200, AZN |-> 17015, XXX |-> 0],
                     lastUpdated |-> 79 ],
    historical |-> << [ date  |-> 61,
                        rates |-> [USD |-> 10000, EUR |-> 9200, AZN |-> 17015, XXX |-> 0] ],
                      [ date  |-> 30,
                        rates |-> [USD |-> 10000, EUR |-> 9100, AZN |-> 17000, XXX |-> 0] ] >> ]

\* a value that is not a Date object (undefined)
NoDate == 0 - 1

RECURSIVE ClosestRate(_, _, _, _)
ClosestRate(i, targetTime, closestDiff, closestRate) ==
  IF i > Len(exchangeRates.historical) THEN closestRate
  ELSE LET historical == exchangeRates.historical[i]
           diff == Abs(targetTime - historical.date)
       IN IF diff < closestDiff
            THEN ClosestRate(i + 1, targetTime, diff, historical.rates)
            ELSE ClosestRate(i + 1, targetTime, closestDiff, closestRate)

\* variant: the live table, whatever the date
getRatesForDateCurrent(date) == exchangeRates.current.rates

getRatesForDate(date) ==
  IF date = NoDate THEN exchangeRates.current.rates
  ELSE ClosestRate(1, date,
                   Abs(date - exchangeRates.current.lastUpdated),
                   exchangeRates.current.rates)

\* the result of a call that throws
Thrown(message) ==
  [ err |-> message, amountInMinorUnits |-> 0,
    exchangeRateNum |-> 0, exchangeRateDen |-> 1 ]

\* variant: every pair of codes goes through the rate table
convertCurrencyByTable(amountInMinorUnits, fromCurrency, toCurrency, date) ==
  IF fromCurrency = "" \/ toCurrency = ""
    THEN Thrown("Both fromCurrency and toCurrency are required")
  ELSE LET rates == getRatesForDate(date) IN
       IF rates[fromCurrency] = 0 \/ rates[toCurrency] = 0
         THEN Thrown("Exchange rate not available")
         ELSE [ err |-> "",
                amountInMinorUnits |->
                   MathRound(amountInMinorUnits * rates[toCurrency], rates[fromCurrency]),
                exchangeRateNum |-> rates[toCurrency],
                exchangeRateDen |-> rates[fromCurrency] ]

\* variant: the quotient is cut off, not rounded
convertCurrencyTruncated(amountInMinorUnits, fromCurrency, toCurrency, date) ==
  IF fromCurrency = "" \/ toCurrency = ""
    THEN Thrown("Both fromCurrency and toCurrency are required")
  ELSE IF fromCurrency = toCurrency
    THEN [ err |-> "", amountInMinorUnits |-> amountInMinorUnits,
           exchangeRateNum |-> 1, exchangeRateDen |-> 1 ]
  ELSE LET rates == getRatesForDate(date) IN
       IF rates[fromCurrency] = 0 \/ rates[toCurrency] = 0
         THEN Thrown("Exchange rate not available")
         ELSE [ err |-> "",
                amountInMinorUnits |->
                   (amountInMinorUnits * rates[toCurrency]) \div rates[fromCurrency],
                exchangeRateNum |-> rates[toCurrency],
                exchangeRateDen |-> rates[fromCurrency] ]

\* the thrown Error is the field err; "" when the call returns.  The amount
\* is an integer here; the check of Number.isInteger is convertCurrencyOfNumber.
\* "" stands for a code that is missing (undefined, null or empty).
convertCurrency(amountInMinorUnits, fromCurrency, toCurrency, date) ==
  IF fromCurrency = "" \/ toCurrency = ""
    THEN Thrown("Both fromCurrency and toCurrency are required")
  ELSE IF fromCurrency = toCurrency
    THEN [ err |-> "", amountInMinorUnits |-> amountInMinorUnits,
           exchangeRateNum |-> 1, exchangeRateDen |-> 1 ]
  ELSE LET rates == getRatesForDate(date) IN
       IF rates[fromCurrency] = 0 \/ rates[toCurrency] = 0
         THEN Thrown("Exchange rate not available")
         ELSE [ err |-> "",
                amountInMinorUnits |->
                   MathRound(amountInMinorUnits * rates[toCurrency], rates[fromCurrency]),
                exchangeRateNum |-> rates[toCurrency],
                exchangeRateDen |-> rates[fromCurrency] ]

\* a JavaScript number is given in halves of a minor unit, so that 201 is
\* the number 100.5; Number.isInteger holds of the even ones
NumberIsInteger(halves) == halves % 2 = 0

\* convertCurrency applied to any number, its first check included
convertCurrencyOfNumber(halves, fromCurrency, toCurrency, date) ==
  IF ~NumberIsInteger(halves)
    THEN Thrown("Amount must be an integer (in minor units)")
    ELSE convertCurrency(halves \div 2, fromCurrency, toCurrency, date)

\* variant: the live rate, whatever the date asked for
getExchangeRateToUSDLive(currency, date) == exchangeRates.current.rates[currency]

\* 0 models the null the function returns for an unknown currency
getExchangeRateToUSD(currency, date) == getRatesForDate(date)[currency]

----------------------------------------------------------------------------
(* The document store and the multi-document session *)

Users == {"u1", "u2"}

AccountIds == {"a1", "a2"}

CurrencyEnum == {"USD", "EUR", "AZN"}

AccountTypeEnum == {"checking", "savings", "credit", "investment", "cash"}

TransactionTypeEnum == {"income", "expense", "transfer"}

\* the identifiers a user's new accounts receive
AccountIdsOf(u) == IF u = "u1" THEN {"a1"} ELSE {"a2"}

MaxTx == 2

TxIds == 1 .. MaxTx

\* the committed store as one value
DB == [accounts |-> accounts, transactions |-> transactions]

\* variant: the lookup by _id alone
FindAccountById(db, id, user) ==
  IF id \in DOMAIN db.accounts THEN {db.accounts[id]} ELSE {}

\* Account.findOne({ _id: id, user: userId }): the set of matching documents
FindAccount(db, id, user) ==
  IF id \in DOMAIN db.accounts /\ db.accounts[id].user = user
    THEN {db.accounts[id]} ELSE {}

\* Transaction.findOne({ _id: id, user: userId })
FindTransaction(db, id, user) ==
  IF id \in DOMAIN db.transactions /\ db.transactions[id].user = user
    THEN {db.transactions[id]} ELSE {}

\* transactionSchema: the validators that run on save
ValidTransactionDoc(d) ==
  /\ d.type \in TransactionTypeEnum
  /\ d.currency \in CurrencyEnum
  /\ d.exchangeRateToUSD # 0
  /\ d.date # NoDate

\* accountSchema: the validators that run on save
ValidAccountDoc(d) ==
  /\ d.type \in AccountTypeEnum
  /\ d.currency \in CurrencyEnum

\* variant: doc.save() without the session option, visible at once
WriteOutsideSession(coll, id, doc) ==
  [coll |-> coll, id |-> id, doc |-> doc, inSession |-> FALSE]

\* doc.save({ session }) / doc.deleteOne({ session }): a write that belongs
\* to the session and becomes visible only when the session commits
SessionWrite(coll, id, doc) ==
  [coll |-> coll, id |-> id, doc |-> doc, inSession |-> TRUE]

ValidWrite(w) ==
  \/ w.doc = {}
  \/ w.coll = "transactions" /\ ValidTransactionDoc(Val(w.doc))
  \/ w.coll = "accounts" /\ ValidAccountDoc(Val(w.doc))

ApplyWrite(db, w) ==
  LET old  == db[w.coll]
      rest == Restrict(old, DOMAIN old \ {w.id})
      new  == IF w.doc = {} THEN rest ELSE (w.id :> Val(w.doc)) @@ rest
  IN [db EXCEPT ![w.coll] = new]

RECURSIVE ApplyWrites(_, _)
ApplyWrites(db, ws) ==
  IF ws = <<>> THEN db ELSE ApplyWrites(ApplyWrite(db, Head(ws)), Tail(ws))

\* index of the first write that throws: the one the store refuses (fail)
\* or the first whose document the schema rejects; 0 when every write passes
FirstFailure(ws, fail) ==
  LET bad == {i \in 1 .. Len(ws) : i = fail \/ ~ValidWrite(ws[i])}
  IN IF bad = {} THEN 0 ELSE CHOOSE i \in bad : \A j \in bad : i <= j

\* session.withTransaction(callback): cb is what the callback computed up to
\* its first write, fail the write the store refuses (0: none).  The writes
\* run in order; a throw aborts the session, which drops its writes.
WithTransaction(db, cb, fail) ==
  LET k      == IF cb.err # "" THEN 0 ELSE FirstFailure(cb.writes, fail)
      thrown == cb.err # "" \/ k # 0
      done   == IF cb.err # "" THEN <<>>
                ELSE IF k = 0 THEN cb.writes ELSE SubSeq(cb.writes, 1, k - 1)
      kept   == IF thrown THEN SelectSeq(done, LAMBDA w : ~w.inSession) ELSE done
  IN [ db        |-> ApplyWrites(db, kept),
       committed |-> ~thrown,
       err       |-> IF cb.err # "" THEN cb.err
                     ELSE IF k # 0 THEN "Write failed" ELSE "" ]

Throw(msg) == [err |-> msg, writes |-> <<>>, delta |-> 0, id |-> 0]

----------------------------------------------------------------------------
(* routes/transactions.js *)

\* Math.round(amount * 100): amount is in thousandths of a major unit
ToMinorUnits(amount) == MathRound(amount, 10)

\* the express-validator chain in front of POST /api/transactions
validateTransaction(req) ==
  /\ req.type \in TransactionTypeEnum
  /\ req.category # ""
  /\ req.amount > 0
  /\ (Present(req.currency) => Val(req.currency) \in CurrencyEnum)
  /\ req.date # NoDate

\* signed effect on the balance of an amount already in the account currency
SignedDelta(type, amountInAccountCurrency) ==
  IF type = "income" THEN amountInAccountCurrency
  ELSE IF type = "expense" THEN 0 - amountInAccountCurrency
  ELSE 0

\* account.balanceInMinorUnits += / -= by the type of the transaction
ApplyToBalance(balance, type, amountInAccountCurrency) ==
  balance + SignedDelta(type, amountInAccountCurrency)

\* variant: the reversal that handles income only
ReverseIncomeOnly(balance, type, amountInAccountCurrency) ==
  IF type = "income" THEN balance - amountInAccountCurrency ELSE balance

\* the inverse branches of update and delete: income is taken off, expense
\* is put back
ReverseFromBalance(balance, type, amountInAccountCurrency) ==
  balance - SignedDelta(type, amountInAccountCurrency)

\* variant: the account type test the wrong way round
InsufficientFundsCreditOnly(type, newBalance, accountType) ==
  type = "expense" /\ newBalance < 0 /\ accountType = "credit"

\* the check made right after an expense was subtracted
InsufficientFunds(type, newBalance, accountType) ==
  type = "expense" /\ newBalance < 0 /\ accountType # "credit"

\* variant: the amount taken as it is, whatever the currencies
NotConverted(amountInMinorUnits, txCurrency, accountCurrency, date) ==
  [err |-> "", amountInMinorUnits |-> amountInMinorUnits]

\* the amount of a transaction in the currency of the account, as the three
\* handlers compute it; err carries the Error convertCurrency throws
InAccountCurrency(amountInMinorUnits, txCurrency, accountCurrency, date) ==
  IF txCurrency = accountCurrency
    THEN [err |-> "", amountInMinorUnits |-> amountInMinorUnits]
    ELSE LET c == convertCurrency(amountInMinorUnits, txCurrency, accountCurrency, date)
         IN [err |-> c.err, amountInMinorUnits |-> c.amountInMinorUnits]

\* the callback of POST /api/transactions, run against the view db
TxCreateCallback(db, user, req, newId) ==
  LET found == FindAccount(db, req.accountId, user) IN
  IF found = {} THEN Throw("Account not found")
  ELSE LET account == Val(found) IN
  IF ~account.isActive THEN Throw("Account is inactive")
  ELSE
  LET amountInMinorUnits == ToMinorUnits(req.amount)
      txCurrency == IF Present(req.currency) THEN Val(req.currency)
                    ELSE account.currency
      txDate == req.date
      exchangeRateToUSD == getExchangeRateToUSD(txCurrency, txDate)
  IN
  IF exchangeRateToUSD = 0 THEN Throw("Exchange rate not available")
  ELSE
  LET usdConversion == convertCurrency(amountInMinorUnits, txCurrency, "USD", txDate)
      accountConversion ==
        InAccountCurrency(amountInMinorUnits, txCurrency, account.currency, txDate)
  IN
  IF usdConversion.err # "" THEN Throw(usdConversion.err)
  ELSE IF accountConversion.err # "" THEN Throw(accountConversion.err)
  ELSE
  LET accountBalanceDelta == accountConversion.amountInMinorUnits
      newBalance == ApplyToBalance(account.balanceInMinorUnits, req.type,
                                   accountBalanceDelta)
  IN
  IF InsufficientFunds(req.type, newBalance, account.type)
    THEN Throw("Insufficient funds")
  ELSE
  LET transaction ==
        [ user |-> user, account |-> req.accountId, type |-> req.type,
          category |-> req.category,
          amountInMinorUnits |-> amountInMinorUnits,
          currency |-> txCurrency,
          exchangeRateToUSD |-> exchangeRateToUSD,
          amountInUSDMinorUnits |-> usdConversion.amountInMinorUnits,
          date |-> txDate ]
  IN [ err    |-> "",
       writes |-> << SessionWrite("transactions", newId, {transaction}),
                     SessionWrite("accounts", req.accountId,
                        {[account EXCEPT !.balanceInMinorUnits = newBalance]}) >>,
       delta  |-> SignedDelta(req.type, accountBalanceDelta),
       id     |-> newId ]

\* the callback of PUT /api/transactions/:id
TxUpdateCallback(db, user, id, updates) ==
  LET foundTx == FindTransaction(db, id, user) IN
  IF foundTx = {} THEN Throw("Transaction not found")
  ELSE LET transaction == Val(foundTx)
           found == FindAccount(db, transaction.account, user) IN
  IF found = {} THEN Throw("Account not found")
  ELSE
  LET account == Val(found)
      old == InAccountCurrency(transaction.amountInMinorUnits, transaction.currency,
                               account.currency, transaction.date)
  IN
  IF old.err # "" THEN Throw(old.err)
  ELSE
  LET reversedBalance ==
        ReverseFromBalance(account.balanceInMinorUnits, transaction.type,
                           old.amountInMinorUnits)
      newAmount   == IF Present(updates.amount) THEN ToMinorUnits(Val(updates.amount))
                     ELSE transaction.amountInMinorUnits
      newType     == IF Present(updates.type) THEN Val(updates.type)
                     ELSE transaction.type
      newCategory == IF Present(updates.category) THEN Val(updates.category)
                     ELSE transaction.category
      newDate     == IF Present(updates.date) THEN Val(updates.date)
                     ELSE transaction.date
      newCurrency == IF Present(updates.currency) THEN Val(updates.currency)
                     ELSE transaction.currency
      exchangeRateToUSD == getExchangeRateToUSD(newCurrency, newDate)
      usdConversion == convertCurrency(newAmount, newCurrency, "USD", newDate)
      new == InAccountCurrency(newAmount, newCurrency, account.currency, newDate)
  IN
  IF usdConversion.err # "" THEN Throw(usdConversion.err)
  ELSE IF new.err # "" THEN Throw(new.err)
  ELSE
  LET newBalance == ApplyToBalance(reversedBalance, newType, new.amountInMinorUnits)
      updated == [ transaction EXCEPT
                     !.amountInMinorUnits = newAmount,
                     !.type = newType,
                     !.category = newCategory,
                     !.date = newDate,
                     !.currency = newCurrency,
                     !.exchangeRateToUSD = exchangeRateToUSD,
                     !.amountInUSDMinorUnits = usdConversion.amountInMinorUnits ]
  IN [ err    |-> "",
       writes |-> << SessionWrite("transactions", id, {updated}),
                     SessionWrite("accounts", transaction.account,
                        {[account EXCEPT !.balanceInMinorUnits = newBalance]}) >>,
       delta  |-> SignedDelta(newType, new.amountInMinorUnits),
       id     |-> id ]

\* the callback of DELETE /api/transactions/:id
TxDeleteCallback(db, user, id) ==
  LET foundTx == FindTransaction(db, id, user) IN
  IF foundTx = {} THEN Throw("Transaction not found")
  ELSE
  LET transaction == Val(foundTx)
      found == FindAccount(db, transaction.account, user)
  IN
  IF found = {}
    THEN [ err    |-> "",
           writes |-> << SessionWrite("transactions", id, {}) >>,
           delta  |-> 0,
           id     |-> id ]
  ELSE
  LET account == Val(found)
      amt == InAccountCurrency(transaction.amountInMinorUnits, transaction.currency,
                               account.currency, transaction.date)
  IN
  IF amt.err # "" THEN Throw(amt.err)
  ELSE
  LET newBalance == ReverseFromBalance(account.balanceInMinorUnits, transaction.type,
                                       amt.amountInMinorUnits)
  IN [ err    |-> "",
       writes |-> << SessionWrite("accounts", transaction.account,
                        {[account EXCEPT !.balanceInMinorUnits = newBalance]}),
                     SessionWrite("transactions", id, {}) >>,
       delta  |-> 0,
       id     |-> id ]

----------------------------------------------------------------------------
(* routes/accounts.js.  Display fields (name, institution) are left out. *)

\* accountValidation.create
validateAccountCreate(req) ==
  /\ req.type \in AccountTypeEnum
  /\ (Present(req.currency) => Val(req.currency) \in CurrencyEnum)

\* accountValidation.update
validateAccountUpdate(updates) ==
  /\ (Present(updates.type) => Val(updates.type) \in AccountTypeEnum)
  /\ (Present(updates.currency) => Val(updates.currency) \in CurrencyEnum)
  /\ (Present(updates.isActive) => Val(updates.isActive) \in BOOLEAN)

\* new Account({...}) of POST /api/accounts
NewAccount(user, req) ==
  [ user |-> user,
    type |-> req.type,
    balanceInMinorUnits |-> IF Present(req.balance) THEN ToMinorUnits(Val(req.balance))
                            ELSE 0,
    currency |-> IF Present(req.currency) THEN Val(req.currency) ELSE "USD",
    isActive |-> TRUE ]

\* the callback of PUT /api/accounts/:id; newId is the _id of the adjustment
\* transaction when one is created, today the value of new Date()
AccountUpdateCallback(db, user, id, updates, newId, today) ==
  LET found == FindAccount(db, id, user) IN
  IF found = {} THEN Throw("Account not found")
  ELSE
  LET account == Val(found)
      newBalanceInMinorUnits ==
        IF Present(updates.balance) THEN ToMinorUnits(Val(updates.balance))
        ELSE account.balanceInMinorUnits
      balanceDifference == newBalanceInMinorUnits - account.balanceInMinorUnits
      adjustmentTransaction ==
        [ user |-> user, account |-> id,
          type |-> IF balanceDifference > 0 THEN "income" ELSE "expense",
          category |-> "Balance Adjustment",
          amountInMinorUnits |-> Abs(balanceDifference),
          currency |-> account.currency,
          exchangeRateToUSD |-> RateScale,
          amountInUSDMinorUnits |-> Abs(balanceDifference),
          date |-> today ]
      saved == [ account EXCEPT
                   !.balanceInMinorUnits = newBalanceInMinorUnits,
                   !.type = IF Present(updates.type) THEN Val(updates.type) ELSE @,
                   !.currency = IF Present(updates.currency) THEN Val(updates.currency)
                                ELSE @,
                   !.isActive = IF Present(updates.isActive) THEN Val(updates.isActive)
                                ELSE @ ]
  IN [ err    |-> "",
       writes |-> IF balanceDifference # 0
                    THEN << SessionWrite("transactions", newId, {adjustmentTransaction}),
                            SessionWrite("accounts", id, {saved}) >>
                    ELSE << SessionWrite("accounts", id, {saved}) >>,
       delta  |-> balanceDifference,
       id     |-> IF balanceDifference # 0 THEN newId ELSE 0 ]

----------------------------------------------------------------------------
(* Requests handled one at a time: each action is one whole request *)

EmptyMap == [x \in {} |-> 0]

NoResponse == [op |-> "none", status |-> 0, error |-> ""]

Init ==
  /\ accounts = EmptyMap
  /\ transactions = EmptyMap
  /\ borrowings = EmptyMap
  /\ initBal = EmptyMap
  /\ applied = EmptyMap
  /\ inflight = EmptyMap
  /\ serial = [accounts |-> EmptyMap, transactions |-> EmptyMap]
  /\ response = NoResponse
  /\ now = 90

FreeTxIds == TxIds \ DOMAIN transactions

NewTxId == CHOOSE i \in FreeTxIds : \A j \in FreeTxIds : i <= j

\* the balance effect each extant transaction had when it was last written
\* (bookkeeping of the model, not program state)
NextApplied(out, cb) ==
  [ t \in DOMAIN out.db.transactions |->
      IF out.committed /\ t = cb.id THEN cb.delta
      ELSE IF t \in DOMAIN applied THEN applied[t] ELSE 0 ]

\* the store after the session ended, and the response the handler sent
Respond(op, okStatus, cb, out) ==
  /\ accounts' = out.db.accounts
  /\ transactions' = out.db.transactions
  /\ applied' = NextApplied(out, cb)
  /\ response' = [ op |-> op,
                   status |-> IF out.committed THEN okStatus ELSE 400,
                   error |-> out.err ]

Reject(op, status, error) ==
  /\ response' = [op |-> op, status |-> status, error |-> error]
  /\ UNCHANGED <<accounts, transactions, applied>>

\* the writes the store may refuse: none (0), the first or the second
Failures == 0 .. 2

\* POST /api/transactions
TxCreate(user, req) ==
  /\ FreeTxIds # {}
  /\ IF ~validateTransaction(req)
       THEN Reject("txCreate", 400, "Validation failed")
       ELSE LET cb == TxCreateCallback(DB, user, req, NewTxId)
            IN \E fail \in Failures :
                 Respond("txCreate", 201, cb, WithTransaction(DB, cb, fail))
  /\ UNCHANGED <<borrowings, initBal, inflight, serial, now>>

\* PUT /api/transactions/:id
TxUpdate(user, id, updates) ==
  /\ LET cb == TxUpdateCallback(DB, user, id, updates)
     IN \E fail \in Failures :
          Respond("txUpdate", 200, cb, WithTransaction(DB, cb, fail))
  /\ UNCHANGED <<borrowings, initBal, inflight, serial, now>>

\* DELETE /api/transactions/:id
TxDelete(user, id) ==
  /\ LET cb == TxDeleteCallback(DB, user, id)
     IN \E fail \in Failures :
          Respond("txDelete", 200, cb, WithTransaction(DB, cb, fail))
  /\ UNCHANGED <<borrowings, initBal, inflight, serial, now>>

\* POST /api/accounts: one save outside any session
AccountCreate(user, req) ==
  /\ AccountIdsOf(user) \ DOMAIN accounts # {}
  /\ LET id == CHOOSE a \in AccountIdsOf(user) \ DOMAIN accounts : TRUE
         account == NewAccount(user, req)
     IN IF ~validateAccountCreate(req)
          THEN /\ Reject("accountCreate", 400, "Validation failed")
               /\ UNCHANGED initBal
          ELSE \E fail \in {0, 1} :
                 IF fail # 0 \/ ~ValidAccountDoc(account)
                   THEN /\ Reject("accountCreate", 500, "Failed to create account")
                        /\ UNCHANGED initBal
                   ELSE /\ accounts' = (id :> account) @@ accounts
                        /\ initBal' = (id :> account.balanceInMinorUnits) @@ initBal
                        /\ response' = [op |-> "accountCreate", status |-> 201,
                                        error |-> ""]
                        /\ UNCHANGED <<transactions, applied>>
  /\ UNCHANGED <<borrowings, inflight, serial, now>>

\* PUT /api/accounts/:id
AccountUpdate(user, id, updates) ==
  /\ Present(updates.balance) => FreeTxIds # {}
  /\ IF ~validateAccountUpdate(updates)
       THEN Reject("accountUpdate", 400, "Validation failed")
       ELSE LET newId == IF FreeTxIds # {} THEN NewTxId ELSE 0
                cb == AccountUpdateCallback(DB, user, id, updates, newId, now)
            IN \E fail \in Failures :
                 Respond("accountUpdate", 200, cb, WithTransaction(DB, cb, fail))
  /\ UNCHANGED <<borrowings, initBal, inflight, serial, now>>

----------------------------------------------------------------------------
(* The requests the model issues.  u1 is the user under study; u2 is another *)
(* user, who owns an account of their own.                                 *)

NoUpdate == [amount |-> {}, type |-> {}, category |-> {}, date |-> {}, currency |-> {}]

\* amounts of request bodies are in thousandths of a major unit
TxCreateRequests(u) ==
  IF u = "u1"
    THEN [ accountId : {"a1"}, type : TransactionTypeEnum, category : {"Groceries"},
           amount : {1000, 2500}, currency : {{"USD"}, {"EUR"}}, date : {75} ]
         \cup
         [ accountId : {"a1"}, type : {"expense"}, category : {"Groceries"},
           amount : {1000}, currency : {{"EUR"}}, date : {40} ]
         \cup
         [ accountId : {"a1", "a2"}, type : {"income", "expense"},
           category : {"Groceries"}, amount : {0, 1000}, currency : {{}},
           date : {75} ]
    ELSE {}

\* every update of one field, the empty update, and one update of all fields
TxUpdateRequests ==
  {NoUpdate}
  \cup {[NoUpdate EXCEPT !.amount = {2500}]}
  \cup {[NoUpdate EXCEPT !.type = {t}] : t \in {"expense", "transfer", "bogus"}}
  \cup {[NoUpdate EXCEPT !.date = {40}]}
  \cup {[NoUpdate EXCEPT !.currency = {c}] : c \in {"EUR", "XXX"}}
  \cup {[amount |-> {2500}, type |-> {"expense"}, category |-> {"Groceries"},
         date |-> {40}, currency |-> {"EUR"}]}

AccountCreateRequests(u) ==
  IF u = "u1"
    THEN { [type |-> "checking", balance |-> {2000}, currency |-> {}],
           [type |-> "credit", balance |-> {}, currency |-> {"EUR"}],
           [type |-> "bogus", balance |-> {}, currency |-> {}] }
    ELSE { [type |-> "savings", balance |-> {2000}, currency |-> {}] }

NoAccountUpdate == [balance |-> {}, currency |-> {}, type |-> {}, isActive |-> {}]

\* account updates that leave currency and balance alone
AccountFlagUpdates ==
  {[NoAccountUpdate EXCEPT !.isActive = {b}] : b \in BOOLEAN}

Next ==
  \/ \E u \in Users : \E req \in AccountCreateRequests(u) : AccountCreate(u, req)
  \/ \E a \in AccountIds, upd \in AccountFlagUpdates : AccountUpdate("u1", a, upd)
  \/ \E u \in Users : \E req \in TxCreateRequests(u) : TxCreate(u, req)
  \/ \E id \in TxIds, upd \in TxUpdateRequests : TxUpdate("u1", id, upd)
  \/ \E id \in TxIds : TxDelete("u1", id)

Spec == Init /\ [][Next]_vars

----------------------------------------------------------------------------
(* The ledger together with account maintenance: PUT /api/accounts/:id with *)
(* a new currency code or a new balance between the transaction requests.  *)

\* a new currency code, or a balance that differs from the stored one
AccountFullUpdates ==
  {[NoAccountUpdate EXCEPT !.currency = {"EUR"}]}
  \cup {[NoAccountUpdate EXCEPT !.balance = {3000}]}

TxAcctRequests ==
  [ accountId : {"a1"}, type : {"income", "expense"}, category : {"Groceries"},
    amount : {1000}, currency : {{"USD"}}, date : {75} ]

TxAcctUpdates ==
  {NoUpdate, [NoUpdate EXCEPT !.amount = {2500}]}

\* reversals computed in a changed currency and edited adjustment records
\* let a balance drift without limit; requests are issued while every
\* balance is within MaxBalance of zero
MaxBalance == 400

BalancesInRange ==
  \A a \in DOMAIN accounts : Abs(accounts[a].balanceInMinorUnits) <= MaxBalance

NextAcct ==
  \/ \E req \in AccountCreateRequests("u1") : AccountCreate("u1", req)
  \/ \E upd \in AccountFullUpdates :
       BalancesInRange /\ AccountUpdate("u1", "a1", upd)
  \/ \E req \in TxAcctRequests : BalancesInRange /\ TxCreate("u1", req)
  \/ \E id \in TxIds, upd \in TxAcctUpdates :
       BalancesInRange /\ TxUpdate("u1", id, upd)
  \/ \E id \in TxIds : BalancesInRange /\ TxDelete("u1", id)

SpecAcct == Init /\ [][NextAcct]_vars

----------------------------------------------------------------------------
(* models/Borrowing.js and routes/borrowings.js.  Counterparty, description *)
(* and the reference-currency fields take no part in the payment rules and *)
(* are left out; borrowings are created in the default currency.           *)

BorrowingStatusEnum == {"pending", "partially_paid", "paid", "overdue"}

MaxBorrowings == 2

BorrowingIds == 1 .. MaxBorrowings

\* Borrowing.findOne({ _id: id, user: userId })
FindBorrowing(id, user) ==
  IF id \in DOMAIN borrowings /\ borrowings[id].user = user
    THEN {borrowings[id]} ELSE {}

\* borrowingSchema.pre('save'): the status derived from the amounts
PreSave(doc, today) ==
  IF doc.paidAmountInMinorUnits >= doc.amountInMinorUnits
    THEN [doc EXCEPT !.status = "paid"]
  ELSE IF doc.paidAmountInMinorUnits > 0
    THEN [doc EXCEPT !.status = "partially_paid"]
  ELSE IF doc.dueDate # NoDate /\ today > doc.dueDate
    THEN [doc EXCEPT !.status = "overdue"]
  ELSE doc

\* validateAmount: positive, at most 1e9 major units, at most two decimals
validateAmount(amount) ==
  /\ amount > 0
  /\ \/ amount \div 1000 < 1000000000
     \/ amount \div 1000 = 1000000000 /\ amount % 1000 = 0
  /\ amount % 10 = 0

\* borrowingValidation.update
validateBorrowingUpdate(updates) ==
  /\ (Present(updates.status) => Val(updates.status) \in BorrowingStatusEnum)
  /\ (Present(updates.paidAmount) => Val(updates.paidAmount) >= 0)

\* variant: the payment alone compared with the principal
PaymentAloneExceeds(paid, payment, principal) == payment > principal

\* newPaidAmount > borrowing.amountInMinorUnits
PaymentExceeds(paid, payment, principal) == paid + payment > principal

\* the response a borrowing handler sends and the collection it leaves
BorrowingRespond(op, status, error, after) ==
  /\ borrowings' = after
  /\ response' = [op |-> op, status |-> status, error |-> error]
  /\ UNCHANGED <<accounts, transactions, initBal, applied, inflight, serial, now>>

\* borrowing.save(): the hook runs, then the store takes the document or
\* refuses it (fail = 1)
BorrowingSave(op, okStatus, id, doc, fail) ==
  IF fail # 0
    THEN BorrowingRespond(op, 500, "Failed", borrowings)
    ELSE BorrowingRespond(op, okStatus, "",
                          (id :> PreSave(doc, now)) @@ borrowings)

\* POST /api/borrowings
BorrowingCreate(user, req) ==
  /\ BorrowingIds \ DOMAIN borrowings # {}
  /\ LET id == CHOOSE i \in BorrowingIds \ DOMAIN borrowings :
                 \A j \in BorrowingIds \ DOMAIN borrowings : i <= j
         borrowing == [ user |-> user,
                        amountInMinorUnits |-> ToMinorUnits(req.amount),
                        currency |-> "USD",
                        dueDate |-> IF Present(req.dueDate) THEN Val(req.dueDate)
                                    ELSE NoDate,
                        status |-> "pending",
                        paidAmountInMinorUnits |-> 0 ]
     IN IF ~validateAmount(req.amount)
          THEN BorrowingRespond("borrowingCreate", 400, "Validation failed", borrowings)
          ELSE \E fail \in {0, 1} :
                 BorrowingSave("borrowingCreate", 201, id, borrowing, fail)

\* what a handler decided before its save: the response of an early return
\* (save = {}), or the document it hands to borrowing.save()
Return(status, error) == [status |-> status, error |-> error, save |-> {}]

Save(doc) == [status |-> 200, error |-> "", save |-> {doc}]

\* variant: a borrowing counts as settled only once more than the principal
\* was paid
AlreadyPaidByAmount(borrowing) ==
  borrowing.paidAmountInMinorUnits > borrowing.amountInMinorUnits

\* borrowing.status === 'paid'
AlreadyPaid(borrowing) == borrowing.status = "paid"

\* variant: the payment replaces what was paid before
NewPaidAmountReplaced(paid, payment) == payment

\* borrowing.paidAmountInMinorUnits + paymentInMinorUnits
NewPaidAmount(paid, payment) == paid + payment

\* the handler of POST /api/borrowings/:id/payment from the result of its
\* findOne up to the save
PaymentOn(found, amount) ==
  IF amount <= 0 THEN Return(400, "Payment amount must be positive")
  ELSE IF found = {} THEN Return(404, "Borrowing record not found")
  ELSE
  LET borrowing == Val(found)
      paymentInMinorUnits == ToMinorUnits(amount)
      newPaidAmount == NewPaidAmount(borrowing.paidAmountInMinorUnits,
                                     paymentInMinorUnits)
  IN
  IF AlreadyPaid(borrowing)
    THEN Return(400, "This borrowing is already fully paid")
  ELSE IF PaymentExceeds(borrowing.paidAmountInMinorUnits, paymentInMinorUnits,
                         borrowing.amountInMinorUnits)
    THEN Return(400, "Payment would exceed the borrowed amount")
  ELSE Save([ borrowing EXCEPT
                !.paidAmountInMinorUnits = newPaidAmount,
                !.status = IF newPaidAmount >= borrowing.amountInMinorUnits
                             THEN "paid" ELSE "partially_paid" ])

\* the handler of POST /api/borrowings/:id/payment up to the save
PaymentHandler(user, id, amount) == PaymentOn(FindBorrowing(id, user), amount)

\* the handler of PUT /api/borrowings/:id up to the save
UpdateHandler(user, id, updates) ==
  LET found == FindBorrowing(id, user) IN
  IF ~validateBorrowingUpdate(updates) THEN Return(400, "Validation failed")
  ELSE IF found = {} THEN Return(404, "Borrowing record not found")
  ELSE
  LET borrowing == Val(found)
      paidAmountInMinorUnits ==
        IF Present(updates.paidAmount) THEN ToMinorUnits(Val(updates.paidAmount))
        ELSE borrowing.paidAmountInMinorUnits
      afterPayment ==
        [ borrowing EXCEPT
            !.paidAmountInMinorUnits = paidAmountInMinorUnits,
            !.status = IF ~Present(updates.paidAmount) THEN @
                       ELSE IF paidAmountInMinorUnits >= borrowing.amountInMinorUnits
                         THEN "paid"
                       ELSE IF paidAmountInMinorUnits > 0 THEN "partially_paid"
                       ELSE @ ]
      \* !updates.paidAmount: the field is absent or zero
      manualStatus ==
        Present(updates.status)
          /\ (~Present(updates.paidAmount) \/ Val(updates.paidAmount) = 0)
      afterFields ==
        [ afterPayment EXCEPT
            !.dueDate = IF Present(updates.dueDate) THEN Val(updates.dueDate) ELSE @,
            !.status = IF manualStatus THEN Val(updates.status) ELSE @ ]
      checked ==
        IF afterFields.dueDate # NoDate /\ afterFields.dueDate < now
             /\ afterFields.status = "pending"
          THEN [afterFields EXCEPT !.status = "overdue"]
          ELSE afterFields
  IN
  IF Present(updates.paidAmount)
       /\ paidAmountInMinorUnits > borrowing.amountInMinorUnits
    THEN Return(400, "Paid amount cannot exceed borrowed amount")
    ELSE Save(checked)

\* POST /api/borrowings/:id/payment
BorrowingPayment(user, id, amount) ==
  LET h == PaymentHandler(user, id, amount) IN
  IF h.save = {}
    THEN BorrowingRespond("borrowingPayment", h.status, h.error, borrowings)
    ELSE \E fail \in {0, 1} :
           BorrowingSave("borrowingPayment", 200, id, Val(h.save), fail)

\* PUT /api/borrowings/:id
BorrowingUpdate(user, id, updates) ==
  LET h == UpdateHandler(user, id, updates) IN
  IF h.save = {}
    THEN BorrowingRespond("borrowingUpdate", h.status, h.error, borrowings)
    ELSE \E fail \in {0, 1} :
           BorrowingSave("borrowingUpdate", 200, id, Val(h.save), fail)

\* GET /api/borrowings/:id
BorrowingGet(user, id) ==
  LET found == FindBorrowing(id, user) IN
  IF found = {}
    THEN BorrowingRespond("borrowingGet", 404, "Borrowing record not found",
                          borrowings)
  ELSE
  LET borrowing == Val(found) IN
  IF borrowing.status = "pending" /\ borrowing.dueDate # NoDate
       /\ borrowing.dueDate < now
    THEN \E fail \in {0, 1} :
           BorrowingSave("borrowingGet", 200, id,
                         [borrowing EXCEPT !.status = "overdue"], fail)
    ELSE BorrowingRespond("borrowingGet", 200, "", borrowings)

\* DELETE /api/borrowings/:id
BorrowingDelete(user, id, confirmDelete) ==
  LET found == FindBorrowing(id, user) IN
  IF found = {}
    THEN BorrowingRespond("borrowingDelete", 404, "Borrowing record not found",
                          borrowings)
  ELSE
  LET borrowing == Val(found) IN
  IF borrowing.status # "paid" /\ borrowing.paidAmountInMinorUnits > 0
       /\ ~confirmDelete
    THEN BorrowingRespond("borrowingDelete", 400,
                          "This borrowing has partial payments", borrowings)
    ELSE \E fail \in {0, 1} :
           IF fail # 0
             THEN BorrowingRespond("borrowingDelete", 500, "Failed", borrowings)
             ELSE BorrowingRespond("borrowingDelete", 200, "",
                    Restrict(borrowings, DOMAIN borrowings \ {id}))

\* amounts of request bodies are in thousandths of a major unit
BorrowingCreateRequests ==
  [amount : {1000, 0, 1005}, dueDate : {{}, {80}}]

PaymentAmounts == {0 - 500, 0, 4, 500, 1000, 2500}

NoBorrowingUpdate == [paidAmount |-> {}, status |-> {}, dueDate |-> {}]

BorrowingUpdateRequests ==
  {NoBorrowingUpdate}
  \cup {[NoBorrowingUpdate EXCEPT !.paidAmount = {p}] : p \in {0 - 500, 0, 500, 1000, 2500}}
  \cup {[NoBorrowingUpdate EXCEPT !.status = {st}] :
          st \in BorrowingStatusEnum \cup {"bogus"}}
  \cup {[NoBorrowingUpdate EXCEPT !.dueDate = {d}] : d \in {NoDate, 80, 100}}
  \cup {[paidAmount |-> {p}, status |-> {"pending"}, dueDate |-> {}] : p \in {0, 500}}

NextBorrow ==
  \/ \E req \in BorrowingCreateRequests : BorrowingCreate("u1", req)
  \/ \E u \in Users, id \in BorrowingIds, amount \in PaymentAmounts :
       BorrowingPayment(u, id, amount)
  \/ \E id \in BorrowingIds, upd \in BorrowingUpdateRequests :
       BorrowingUpdate("u1", id, upd)
  \/ \E id \in BorrowingIds : BorrowingGet("u1", id)
  \/ \E id \in BorrowingIds, confirmDelete \in BOOLEAN :
       BorrowingDelete("u1", id, confirmDelete)

SpecBorrow == Init /\ [][NextBorrow]_vars

----------------------------------------------------------------------------
(* Transaction requests in flight at the same time.  Each request runs its *)
(* callback inside its own session: the reads made with .session(session)  *)
(* see the snapshot taken when the session read first, the writes made     *)
(* with { session } appear together at the commit, and a session write to  *)
(* a document that another session changed after the snapshot raises a     *)
(* transient error, on which withTransaction runs the callback again.      *)
(* serial is bookkeeping of the model: the store obtained by running the   *)
(* committed requests one after another in the order of their commits.     *)

MaxInflight == 2

Slots == 1 .. MaxInflight

\* the state of one document in a view of the store: {} when it is absent
DocOf(db, coll, id) ==
  IF id \in DOMAIN db[coll] THEN {db[coll][id]} ELSE {}

\* the callback of the request r, run against the view db
ConcCallback(db, r, newId) ==
  CASE r.op = "txCreate" -> TxCreateCallback(db, r.user, r.req, newId)
    [] r.op = "txUpdate" -> TxUpdateCallback(db, r.user, r.id, r.updates)
    [] r.op = "txDelete" -> TxDeleteCallback(db, r.user, r.id)

\* save() sends nothing for a document that was not modified
EffectiveWrites(snapshot, ws) ==
  SelectSeq(ws, LAMBDA w : w.doc # DocOf(snapshot, w.coll, w.id))

\* a session write meets a document changed since the snapshot was taken
WriteConflict(snapshot, db, ws) ==
  \E i \in 1 .. Len(ws) :
    /\ ws[i].inSession
    /\ DocOf(db, ws[i].coll, ws[i].id) # DocOf(snapshot, ws[i].coll, ws[i].id)

\* what a session does when its callback, which computed cb on the snapshot
\* of the slot f, runs to the end
AttemptOf(f, cb) ==
  LET ws == IF cb.err # "" THEN <<>> ELSE EffectiveWrites(f.snapshot, cb.writes)
  IN [ cb       |-> [cb EXCEPT !.writes = ws],
       conflict |-> WriteConflict(f.snapshot, DB, ws) ]

Attempt(s) ==
  AttemptOf(inflight[s],
            ConcCallback(inflight[s].snapshot, inflight[s].request,
                         inflight[s].newId))

\* an _id is never given twice: a new transaction takes one that no session
\* in flight has reserved or can see in its snapshot
ReservedTxIds ==
  {inflight[s].newId : s \in DOMAIN inflight}
  \cup UNION {DOMAIN inflight[s].snapshot.transactions : s \in DOMAIN inflight}

\* a request arrives: startSession, and the first read fixes the snapshot
ConcBegin(s, r) ==
  /\ s \notin DOMAIN inflight
  /\ r.op = "txCreate" => FreeTxIds \ ReservedTxIds # {}
  /\ LET newId == IF r.op = "txCreate"
                    THEN CHOOSE i \in FreeTxIds \ ReservedTxIds :
                           \A j \in FreeTxIds \ ReservedTxIds : i <= j
                    ELSE 0
     IN inflight' = (s :> [ request |-> r, snapshot |-> DB, newId |-> newId,
                            retried |-> FALSE ]) @@ inflight
  /\ UNCHANGED <<accounts, transactions, borrowings, initBal, applied, serial,
                 response, now>>

EndSession(s) == inflight' = Restrict(inflight, DOMAIN inflight \ {s})

AbortWith(s, at) ==
  \E fail \in {0, 1} :
    /\ ~at.conflict
    /\ at.cb.err # "" \/ (fail # 0 /\ at.cb.writes # <<>>)
    /\ Respond(inflight[s].request.op, 200, at.cb, WithTransaction(DB, at.cb, fail))

\* the callback throws, or the store refuses a save: the session is aborted
\* and the handler answers 400
ConcAbort(s) ==
  /\ s \in DOMAIN inflight
  /\ AbortWith(s, Attempt(s))
  /\ EndSession(s)
  /\ UNCHANGED <<borrowings, initBal, serial, now>>

RetryWith(s, at, db) ==
  /\ at.conflict
  /\ accounts' = db.accounts
  /\ transactions' = db.transactions
  /\ inflight' = [inflight EXCEPT ![s].snapshot = db, ![s].retried = TRUE]

\* a write conflict: the session is aborted, writes made outside it stay,
\* and withTransaction starts the callback again on a new snapshot
ConcRetry(s) ==
  /\ s \in DOMAIN inflight
  /\ RetryWith(s, Attempt(s),
       ApplyWrites(DB, SelectSeq(Attempt(s).cb.writes, LAMBDA w : ~w.inSession)))
  /\ UNCHANGED <<borrowings, initBal, applied, serial, response, now>>

CommitWith(s, at, one) ==
  /\ ~at.conflict
  /\ at.cb.err = ""
  /\ Respond(inflight[s].request.op,
             IF inflight[s].request.op = "txCreate" THEN 201 ELSE 200,
             at.cb, WithTransaction(DB, at.cb, 0))
  /\ serial' = WithTransaction(serial, one, 0).db

\* the callback ran to the end without a conflict: the session commits
ConcCommit(s) ==
  /\ s \in DOMAIN inflight
  /\ CommitWith(s, Attempt(s),
       ConcCallback(serial, inflight[s].request, inflight[s].newId))
  /\ EndSession(s)
  /\ UNCHANGED <<borrowings, initBal, now>>

NoRequest ==
  [ accountId |-> "a1", type |-> "income", category |-> "Groceries",
    amount |-> 0, currency |-> {}, date |-> 75 ]

\* an income, an expense that the balance covers once but not twice, two
\* updates and the delete of either transaction
ConcRequests ==
  {[op |-> "txCreate", user |-> "u1", req |-> req, id |-> 0, updates |-> NoUpdate] :
     req \in { [NoRequest EXCEPT !.amount = 1000, !.currency = {"USD"}],
               [NoRequest EXCEPT !.type = "expense", !.amount = 1500] }}
  \cup {[op |-> "txUpdate", user |-> "u1", req |-> NoRequest, id |-> id,
         updates |-> upd] :
          id \in TxIds,
          upd \in {[NoUpdate EXCEPT !.amount = {2500}], [NoUpdate EXCEPT !.date = {40}]}}
  \cup {[op |-> "txDelete", user |-> "u1", req |-> NoRequest, id |-> id,
         updates |-> NoUpdate] : id \in TxIds}

\* the store after POST /api/accounts created the checking account of u1
InitConc ==
  LET account == NewAccount("u1", [type |-> "checking", balance |-> {2000},
                                    currency |-> {}])
  IN /\ accounts = ("a1" :> account)
     /\ transactions = EmptyMap
     /\ borrowings = EmptyMap
     /\ initBal = ("a1" :> account.balanceInMinorUnits)
     /\ applied = EmptyMap
     /\ inflight = EmptyMap
     /\ serial = [accounts |-> ("a1" :> account), transactions |-> EmptyMap]
     /\ response = NoResponse
     /\ now = 90

NextConc ==
  \/ \E s \in Slots, r \in ConcRequests : ConcBegin(s, r)
  \/ \E s \in Slots : ConcAbort(s)
  \/ \E s \in Slots : ConcRetry(s)
  \/ \E s \in Slots : ConcCommit(s)

SpecConc == InitConc /\ [][NextConc]_vars

----------------------------------------------------------------------------
(* What a request would do in the current state *)

TxCreateOutcome(user, req, fail) ==
  WithTransaction(DB, TxCreateCallback(DB, user, req, NewTxId), fail)

TxUpdateOutcome(user, id, updates, fail) ==
  WithTransaction(DB, TxUpdateCallback(DB, user, id, updates), fail)

TxDeleteOutcome(user, id, fail) ==
  WithTransaction(DB, TxDeleteCallback(DB, user, id), fail)

\* the account a request names exists and belongs to the requesting user
OwnsAccount(user, id) == id \in DOMAIN accounts /\ accounts[id].user = user

\* the value v of a transaction amount in the currency k of an account
ValueIn(a, c, k, d) ==
  IF c = k THEN a ELSE convertCurrency(a, c, k, d).amountInMinorUnits

\* + for income, - for expense, 0 for transfer
Effect(t, k) ==
  LET v == ValueIn(t.amountInMinorUnits, t.currency, k, t.date)
  IN CASE t.type = "income"  -> v
       [] t.type = "expense" -> 0 - v
       [] OTHER              -> 0

RECURSIVE SumEffects(_, _)
SumEffects(ids, k) ==
  IF ids = {} THEN 0
  ELSE LET t == CHOOSE x \in ids : TRUE
       IN Effect(transactions[t], k) + SumEffects(ids \ {t}, k)

TxOf(a) == {t \in DOMAIN transactions : transactions[t].account = a}

----------------------------------------------------------------------------
(* Claims *)

\* C1: the balance of every account equals its initial balance plus the sum
\* of the signed effects of its extant transactions, each converted into the
\* account currency at the date of the transaction, whatever sequence of
\* successful and failed create, update and delete requests came before.
C1_LedgerBalance ==
  \A a \in DOMAIN accounts :
    accounts[a].balanceInMinorUnits
      = initBal[a] + SumEffects(TxOf(a), accounts[a].currency)

\* a delete went through while a converted transaction is still extant
C1_Witness ==
  /\ response.op = "txDelete" /\ response.status = 200
  /\ \E t \in DOMAIN transactions :
       /\ transactions[t].currency # accounts[transactions[t].account].currency
       /\ transactions[t].type # "transfer"
       /\ accounts[transactions[t].account].balanceInMinorUnits
            # initBal[transactions[t].account]

\* C2: a create, update or delete request that ends in an error, at whatever
\* step, leaves the transaction records and every account as they were.
C2_FailureChangesNothing ==
  \A fail \in Failures :
    /\ \A u \in Users : \A req \in TxCreateRequests(u) :
         FreeTxIds # {} =>
           LET out == TxCreateOutcome(u, req, fail)
           IN ~out.committed => out.db = DB
    /\ \A u \in Users, id \in TxIds : \A upd \in TxUpdateRequests :
         LET out == TxUpdateOutcome(u, id, upd, fail)
         IN ~out.committed => out.db = DB
    /\ \A u \in Users, id \in TxIds :
         LET out == TxDeleteOutcome(u, id, fail)
         IN ~out.committed => out.db = DB

\* a save was refused in the middle of a request on an account with history
C2_Witness ==
  /\ response.status = 400 /\ response.error = "Write failed"
  /\ response.op \in {"txCreate", "txUpdate", "txDelete"}
  /\ DOMAIN transactions # {}

\* C3: an expense whose converted amount exceeds the balance of a non-credit
\* account is rejected, creates no record and leaves the balance unchanged;
\* on an active account the error is 'Insufficient funds'.
C3_InsufficientFunds ==
  \A u \in Users : \A req \in TxCreateRequests(u) :
    (/\ FreeTxIds # {}
     /\ validateTransaction(req)
     /\ req.type = "expense"
     /\ OwnsAccount(u, req.accountId)
     /\ accounts[req.accountId].type # "credit"
     /\ ValueIn(ToMinorUnits(req.amount),
                IF Present(req.currency) THEN Val(req.currency)
                ELSE accounts[req.accountId].currency,
                accounts[req.accountId].currency, req.date)
          > accounts[req.accountId].balanceInMinorUnits)
    => LET out == TxCreateOutcome(u, req, 0)
       IN /\ ~out.committed
          /\ out.db = DB
          /\ accounts[req.accountId].isActive => out.err = "Insufficient funds"

C3_Witness ==
  /\ response = [op |-> "txCreate", status |-> 400, error |-> "Insufficient funds"]
  /\ \E a \in DOMAIN accounts : accounts[a].balanceInMinorUnits > 0

\* C4: a create request goes through only when the account it names
\* exists, belongs to the requesting user and is active; otherwise it is
\* rejected, no transaction is created and no account changes.
C4_AccountResolution ==
  \A u \in Users : \A req \in TxCreateRequests(u) :
    (FreeTxIds # {} /\ validateTransaction(req)) =>
      LET out == TxCreateOutcome(u, req, 0)
          usable == OwnsAccount(u, req.accountId) /\ accounts[req.accountId].isActive
      IN /\ out.committed => usable
         /\ ~usable => /\ ~out.committed
                       /\ out.db = DB
                       /\ out.err \in {"Account not found", "Account is inactive"}

\* u1 named the account of u2 and was turned away
C4_Witness ==
  /\ response = [op |-> "txCreate", status |-> 400, error |-> "Account not found"]
  /\ "a2" \in DOMAIN accounts
  /\ accounts["a2"].user = "u2"
  /\ accounts["a2"].balanceInMinorUnits = initBal["a2"]

\* C5: a successful create of amount a (minor units), currency c, date d on
\* an account of currency k moves the balance of that account by +v for
\* income, -v for expense and 0 for transfer, v being a when c = k and the
\* converted amount otherwise; no other account changes.
C5_CreateDelta ==
  \A u \in Users : \A req \in TxCreateRequests(u) :
    (FreeTxIds # {} /\ validateTransaction(req)) =>
      LET out == TxCreateOutcome(u, req, 0) IN
      out.committed =>
        LET k == accounts[req.accountId].currency
            c == IF Present(req.currency) THEN Val(req.currency) ELSE k
            v == ValueIn(ToMinorUnits(req.amount), c, k, req.date)
            change == out.db.accounts[req.accountId].balanceInMinorUnits
                        - accounts[req.accountId].balanceInMinorUnits
        IN /\ req.type = "income" => change = v
           /\ req.type = "expense" => change = 0 - v
           /\ req.type = "transfer" => change = 0
           /\ \A a \in DOMAIN accounts \ {req.accountId} :
                out.db.accounts[a] = accounts[a]
           /\ DOMAIN out.db.accounts = DOMAIN accounts

\* a create in a foreign currency went through and moved the balance by a
\* converted amount that differs from the amount entered
C5_Witness ==
  /\ response.op = "txCreate" /\ response.status = 201
  /\ \E t \in DOMAIN transactions :
       LET tx == transactions[t]
           k == accounts[tx.account].currency
       IN /\ tx.currency # k
          /\ tx.type = "expense"
          /\ TxOf(tx.account) = {t}
          /\ ValueIn(tx.amountInMinorUnits, tx.currency, k, tx.date)
               # tx.amountInMinorUnits
          /\ accounts[tx.account].balanceInMinorUnits
               = initBal[tx.account]
                   - ValueIn(tx.amountInMinorUnits, tx.currency, k, tx.date)

\* C8 as stated: the reference-currency amount is the stored amount times
\* the stored rate, rounded.
C8_AmountTimesRate ==
  \A t \in DOMAIN transactions :
    transactions[t].amountInUSDMinorUnits
      = MathRound(transactions[t].amountInMinorUnits * transactions[t].exchangeRateToUSD,
                  RateScale)

\* C8 amended: the stored rate is units of the currency per US dollar, and
\* the reference-currency amount is the stored amount divided by it, rounded.
C8_AmountOverRate ==
  \A t \in DOMAIN transactions :
    transactions[t].amountInUSDMinorUnits
      = MathRound(transactions[t].amountInMinorUnits * RateScale,
                  transactions[t].exchangeRateToUSD)

\* a transaction in euros whose date was moved to one with another rate
C8_Witness ==
  /\ response.op = "txUpdate" /\ response.status = 200
  /\ \E t \in DOMAIN transactions :
       /\ transactions[t].currency = "EUR"
       /\ transactions[t].date = 40
       /\ transactions[t].exchangeRateToUSD = 9100

\* C6: on every transaction update and delete the amount taken back from the
\* balance is exactly the delta that was applied to it when the transaction
\* was created or last updated, also after the currency code of the account
\* was changed by an account update in between.
C6_ReversalEqualsApplied ==
  \A id \in DOMAIN transactions :
    LET a == transactions[id].account IN
    OwnsAccount("u1", a) =>
      /\ LET out == TxDeleteOutcome("u1", id, 0)
         IN out.committed =>
              out.db.accounts[a].balanceInMinorUnits
                = accounts[a].balanceInMinorUnits - applied[id]
      /\ \A upd \in TxAcctUpdates :
           LET cb  == TxUpdateCallback(DB, "u1", id, upd)
               out == WithTransaction(DB, cb, 0)
           IN out.committed =>
                out.db.accounts[a].balanceInMinorUnits
                  = accounts[a].balanceInMinorUnits - applied[id] + cb.delta

\* C9: the stored rate and reference-currency amount of every extant
\* transaction are the rate of its currency at its own date and the
\* conversion of its amount at that date, the transactions written by a
\* balance adjustment included.
C9_RateOfOwnDate ==
  \A t \in DOMAIN transactions :
    LET tx == transactions[t] IN
    /\ tx.exchangeRateToUSD = getExchangeRateToUSD(tx.currency, tx.date)
    /\ tx.amountInUSDMinorUnits
         = convertCurrency(tx.amountInMinorUnits, tx.currency, "USD",
                           tx.date).amountInMinorUnits

\* C10: whatever borrowing create, payment and update requests came before,
\* the paid amount of every borrowing lies between zero and the principal;
\* a payment whose increment would take the paid amount above the principal
\* is rejected and leaves the borrowing as it was.
C10_PaidWithinPrincipal ==
  /\ \A b \in DOMAIN borrowings :
       /\ 0 <= borrowings[b].paidAmountInMinorUnits
       /\ borrowings[b].paidAmountInMinorUnits <= borrowings[b].amountInMinorUnits
  /\ \A u \in Users, id \in BorrowingIds, amount \in PaymentAmounts :
       (/\ FindBorrowing(id, u) # {}
        /\ amount > 0
        /\ borrowings[id].paidAmountInMinorUnits + ToMinorUnits(amount)
             > borrowings[id].amountInMinorUnits)
       => LET h == PaymentHandler(u, id, amount)
          IN h.save = {} /\ h.status = 400

\* a payment on a partly paid borrowing was turned away for exceeding what
\* is left of the principal
C10_Witness ==
  /\ response = [ op |-> "borrowingPayment", status |-> 400,
                  error |-> "Payment would exceed the borrowed amount" ]
  /\ \E b \in DOMAIN borrowings :
       /\ borrowings[b].paidAmountInMinorUnits > 0
       /\ borrowings[b].paidAmountInMinorUnits < borrowings[b].amountInMinorUnits
       /\ borrowings[b].status = "partially_paid"

\* C7: however transaction create, update and delete requests on one account
\* interleave, each in its own session, the store equals the store produced
\* by running exactly the committed requests one after another in the order
\* of their commits: no balance update is lost, and the balance equals the
\* initial balance plus the signed effects of the extant transactions.
C7_SerialOrder ==
  /\ DB = serial
  /\ \A a \in DOMAIN accounts :
       accounts[a].balanceInMinorUnits - initBal[a]
         = SumEffects(TxOf(a), accounts[a].currency)

\* a session that had to run again, because another session committed a
\* change of the account under it, is about to commit its own change on top
C7_Witness ==
  \E s \in DOMAIN inflight :
    /\ inflight[s].retried
    /\ ~Attempt(s).conflict
    /\ Attempt(s).cb.err = ""
    /\ \E i \in 1 .. Len(Attempt(s).cb.writes) :
         Attempt(s).cb.writes[i].coll = "accounts"
    /\ accounts["a1"].balanceInMinorUnits # initBal["a1"]

\* C11: after every read and every write of a borrowing its stored status is
\* the function of paid amount, principal, due date and the present time:
\* paid, else partially_paid, else overdue, else pending.
C11_StatusIsFunction ==
  \A b \in DOMAIN borrowings :
    LET doc == borrowings[b] IN
    doc.status =
      IF doc.paidAmountInMinorUnits >= doc.amountInMinorUnits THEN "paid"
      ELSE IF doc.paidAmountInMinorUnits > 0 THEN "partially_paid"
      ELSE IF doc.dueDate # NoDate /\ doc.dueDate < now THEN "overdue"
      ELSE "pending"

\* C12: a payment against a borrowing whose status is paid is rejected and
\* changes nothing; a payment that completes the principal leaves the
\* status paid, so that every further payment is rejected.
C12_PaidRejectsPayment ==
  \A u \in Users, id \in BorrowingIds, amount \in PaymentAmounts :
    FindBorrowing(id, u) # {} =>
      LET h == PaymentHandler(u, id, amount) IN
      /\ borrowings[id].status = "paid" => (h.save = {} /\ h.status = 400)
      /\ (/\ h.save # {}
          /\ Val(h.save).paidAmountInMinorUnits = borrowings[id].amountInMinorUnits)
         => PreSave(Val(h.save), now).status = "paid"

\* a payment was turned away from a borrowing paid in full
C12_Witness ==
  /\ response = [ op |-> "borrowingPayment", status |-> 400,
                  error |-> "This borrowing is already fully paid" ]
  /\ \E b \in DOMAIN borrowings :
       /\ borrowings[b].status = "paid"
       /\ borrowings[b].paidAmountInMinorUnits = borrowings[b].amountInMinorUnits

\* C13: once the status of a borrowing is paid, no update changes the status
\* or takes the paid amount below the principal.
C13_PaidIsTerminal ==
  \A id \in DOMAIN borrowings : \A upd \in BorrowingUpdateRequests :
    borrowings[id].status = "paid" =>
      LET h == UpdateHandler(borrowings[id].user, id, upd) IN
      h.save # {} =>
        /\ PreSave(Val(h.save), now).status = "paid"
        /\ PreSave(Val(h.save), now).paidAmountInMinorUnits
             >= borrowings[id].amountInMinorUnits

\* C14: on a borrowing that is not paid, a payment of inc > 0 minor units
\* with paid + inc <= principal is accepted, adds exactly inc to the paid
\* amount, leaves principal, currency and due date alone, and sets the status
\* to paid when the principal is reached and to partially_paid otherwise.
C14_PaymentAccepted ==
  \A u \in Users, id \in BorrowingIds, amount \in PaymentAmounts :
    (/\ FindBorrowing(id, u) # {}
     /\ borrowings[id].status # "paid"
     /\ amount > 0
     /\ ToMinorUnits(amount) > 0
     /\ borrowings[id].paidAmountInMinorUnits + ToMinorUnits(amount)
          <= borrowings[id].amountInMinorUnits)
    => LET h == PaymentHandler(u, id, amount)
           old == borrowings[id]
           new == PreSave(Val(h.save), now)
       IN /\ h.save # {}
          /\ new.paidAmountInMinorUnits
               = old.paidAmountInMinorUnits + ToMinorUnits(amount)
          /\ new.amountInMinorUnits = old.amountInMinorUnits
          /\ new.currency = old.currency
          /\ new.dueDate = old.dueDate
          /\ new.user = old.user
          /\ new.status = IF new.paidAmountInMinorUnits = new.amountInMinorUnits
                            THEN "paid" ELSE "partially_paid"

\* an overdue borrowing took a second part payment
C14_Witness ==
  /\ response = [op |-> "borrowingPayment", status |-> 200, error |-> ""]
  /\ \E b \in DOMAIN borrowings :
       /\ borrowings[b].status = "partially_paid"
       /\ borrowings[b].dueDate # NoDate /\ borrowings[b].dueDate < now
       /\ borrowings[b].paidAmountInMinorUnits > 0
       /\ borrowings[b].paidAmountInMinorUnits < borrowings[b].amountInMinorUnits

----------------------------------------------------------------------------
(* convertCurrency as a function: the arguments of one call are drawn in  *)
(* the initial state, the call is made, and its result is converted back. *)

MaxConvAmount == 150

\* the numbers passed as amount, in halves of a minor unit: integers from
\* -30 to MaxConvAmount, 10000 and 12345, and the non-integers 0.5 and 100.5
ConvNumbers ==
  {2 * n : n \in (0 - 30) .. MaxConvAmount} \cup {20000, 24690, 1, 201}

\* the codes of the table, one code that is not in it and a missing code
ConvCodes == CurrencyEnum \cup {"XXX", ""}

\* no Date, the dates of the table and dates between and after them
ConvDates == {NoDate, 30, 40, 45, 46, 61, 70, 79, 90}

ConvCalls ==
  [ amount : ConvNumbers, fromCurrency : ConvCodes, toCurrency : ConvCodes,
    date : ConvDates ]

NoResult == Thrown("not called")

InitConv ==
  /\ accounts = EmptyMap
  /\ transactions = EmptyMap
  /\ borrowings = EmptyMap
  /\ initBal = EmptyMap
  /\ applied = EmptyMap
  /\ serial = [accounts |-> EmptyMap, transactions |-> EmptyMap]
  /\ now = 90
  /\ inflight \in ConvCalls
  /\ response = [op |-> "none", result |-> NoResult, back |-> NoResult]

\* convertCurrency(amount, fromCurrency, toCurrency, date)
ConvCall ==
  /\ response.op = "none"
  /\ response' = [ response EXCEPT
                     !.op = "convertCurrency",
                     !.result = convertCurrencyOfNumber(inflight.amount,
                                  inflight.fromCurrency, inflight.toCurrency,
                                  inflight.date) ]
  /\ UNCHANGED <<accounts, transactions, borrowings, initBal, applied,
                 inflight, serial, now>>

\* the result converted back: convertCurrency(result, toCurrency, fromCurrency, date)
ConvBack ==
  /\ response.op = "convertCurrency"
  /\ response.result.err = ""
  /\ response' = [ response EXCEPT
                     !.op = "convertBack",
                     !.back = convertCurrencyOfNumber(
                                2 * response.result.amountInMinorUnits,
                                inflight.toCurrency, inflight.fromCurrency,
                                inflight.date) ]
  /\ UNCHANGED <<accounts, transactions, borrowings, initBal, applied,
                 inflight, serial, now>>

NextConv == ConvCall \/ ConvBack

SpecConv == InitConv /\ [][NextConv]_vars

Called == response.op \in {"convertCurrency", "convertBack"}

\* C15: convertCurrency(a, c, c, d) returns the amount a and the exchange
\* rate exactly 1, for every integer a, every currency code c and every d.
C15_SameCurrencyIdentity ==
  (/\ Called
   /\ NumberIsInteger(inflight.amount)
   /\ inflight.fromCurrency # ""
   /\ inflight.fromCurrency = inflight.toCurrency)
  => /\ response.result.err = ""
     /\ 2 * response.result.amountInMinorUnits = inflight.amount
     /\ response.result.exchangeRateNum = response.result.exchangeRateDen

\* a negative amount came back unchanged from a same-currency call dated
\* in the historical part of the table
C15_Witness ==
  /\ response.op = "convertCurrency"
  /\ inflight.fromCurrency = "EUR" /\ inflight.toCurrency = "EUR"
  /\ inflight.date = 40
  /\ inflight.amount < 0
  /\ response.result.err = ""
  /\ 2 * response.result.amountInMinorUnits = inflight.amount

\* C16: for A and B among USD, EUR and AZN, converting an integer amount
\* from A to B and the result back to A at the same date gives the amount
\* within one minor unit.
C16_RoundTrip ==
  (/\ response.op = "convertBack"
   /\ inflight.fromCurrency \in CurrencyEnum
   /\ inflight.toCurrency \in CurrencyEnum)
  => /\ response.back.err = ""
     /\ Abs(2 * response.back.amountInMinorUnits - inflight.amount) <= 2

\* a round trip through another currency that came back one minor unit off
C16_Witness ==
  /\ response.op = "convertBack"
  /\ inflight.fromCurrency = "AZN" /\ inflight.toCurrency = "EUR"
  /\ response.back.err = ""
  /\ Abs(2 * response.back.amountInMinorUnits - inflight.amount) = 2

\* C17: convertCurrency returns a result only when the amount is an integer
\* and both currency codes are in the rate table of the date; otherwise it
\* throws.
C17_ReturnsOnlyForKnownCodes ==
  (Called /\ response.result.err = "")
  => /\ NumberIsInteger(inflight.amount)
     /\ inflight.fromCurrency # "" /\ inflight.toCurrency # ""
     /\ getRatesForDate(inflight.date)[inflight.fromCurrency] # 0
     /\ getRatesForDate(inflight.date)[inflight.toCurrency] # 0

\* C18: the rates of a conversion are those of the one table entry, the
\* current one dated by lastUpdated or a historical one, whose date is
\* nearest to d, and the converted amount is
\* round(amount / rate[source] * rate[target]).
C18_NearestEntry ==
  (/\ Called
   /\ response.result.err = ""
   /\ inflight.fromCurrency # inflight.toCurrency
   /\ inflight.date # NoDate)
  => LET entries ==
           {[date |-> exchangeRates.current.lastUpdated,
             rates |-> exchangeRates.current.rates]}
           \cup {exchangeRates.historical[i] :
                   i \in 1 .. Len(exchangeRates.historical)}
     IN \E e \in entries :
          /\ \A o \in entries :
               Abs(inflight.date - e.date) <= Abs(inflight.date - o.date)
          /\ response.result.amountInMinorUnits
               = MathRound((inflight.amount \div 2) * e.rates[inflight.toCurrency],
                           e.rates[inflight.fromCurrency])
          /\ response.result.exchangeRateNum * e.rates[inflight.fromCurrency]
               = response.result.exchangeRateDen * e.rates[inflight.toCurrency]

\* a conversion dated nearest to the oldest entry used that entry's rates
C18_Witness ==
  /\ response.op = "convertCurrency"
  /\ inflight.date = 45
  /\ inflight.fromCurrency = "EUR" /\ inflight.toCurrency = "AZN"
  /\ inflight.amount = 20000
  /\ response.result.amountInMinorUnits = MathRound(10000 * 17000, 9100)
  /\ response.result.amountInMinorUnits # MathRound(10000 * 17015, 9200)

----------------------------------------------------------------------------
(* Account maintenance: DELETE /api/accounts/:id, reactivation, updates    *)
(* without a balance field, reads, work-shift entries and the borrowing    *)
(* routes, next to transaction creation.  The account name is not part of  *)
(* the model: a rename is an update that carries none of the modelled      *)
(* fields.                                                                 *)

\* Transaction.countDocuments({ account: id, user: userId }) as a set
TransactionsOf(db, id, user) ==
  {t \in DOMAIN db.transactions :
     db.transactions[t].account = id /\ db.transactions[t].user = user}

\* Transaction.deleteMany({ account: id, user: userId }) in the session
RECURSIVE DeleteMany(_)
DeleteMany(ids) ==
  IF ids = {} THEN <<>>
  ELSE LET t == CHOOSE i \in ids : \A j \in ids : i <= j
       IN <<SessionWrite("transactions", t, {})>> \o DeleteMany(ids \ {t})

\* variant: an account is never merely deactivated
SoftDeleteNever(transactionCount, forceDelete) == FALSE

\* transactionCount > 0 && forceDelete !== 'true'
SoftDelete(transactionCount, forceDelete) ==
  transactionCount > 0 /\ forceDelete # "true"

\* the callback of DELETE /api/accounts/:id
AccountDeleteCallback(db, user, id, forceDelete) ==
  LET found == FindAccount(db, id, user) IN
  IF found = {} THEN Throw("Account not found")
  ELSE
  LET account == Val(found)
      related == TransactionsOf(db, id, user)
      transactionCount == Cardinality(related)
  IN [ err    |-> "",
       writes |-> IF SoftDelete(transactionCount, forceDelete)
                    THEN << SessionWrite("accounts", id,
                                         {[account EXCEPT !.isActive = FALSE]}) >>
                  ELSE IF forceDelete = "true"
                    THEN DeleteMany(related)
                           \o << SessionWrite("accounts", id, {}) >>
                  ELSE << SessionWrite("accounts", id, {}) >>,
       delta  |-> 0,
       id     |-> 0 ]

\* the writes of a forced delete the store may refuse: none, or any one
DeleteFailures == 0 .. (MaxTx + 1)

\* DELETE /api/accounts/:id?forceDelete=...
AccountDelete(user, id, forceDelete) ==
  /\ LET cb == AccountDeleteCallback(DB, user, id, forceDelete)
     IN \E fail \in DeleteFailures :
          Respond("accountDelete", 200, cb, WithTransaction(DB, cb, fail))
  /\ UNCHANGED <<borrowings, initBal, inflight, serial, now>>

\* variant: reactivation starts the account from a zero balance
ReactivatedFromZero(account) ==
  [account EXCEPT !.isActive = TRUE, !.balanceInMinorUnits = 0]

\* account.isActive = true
Reactivated(account) == [account EXCEPT !.isActive = TRUE]

\* POST /api/accounts/:id/reactivate: one save outside any session
AccountReactivate(user, id) ==
  /\ LET found == FindAccount(DB, id, user) IN
     IF found = {} THEN Reject("accountReactivate", 404, "Account not found")
     ELSE IF Val(found).isActive
       THEN Reject("accountReactivate", 400, "Account is already active")
     ELSE \E fail \in {0, 1} :
            IF fail # 0 \/ ~ValidAccountDoc(Reactivated(Val(found)))
              THEN Reject("accountReactivate", 500, "Failed to reactivate account")
              ELSE /\ accounts' = (id :> Reactivated(Val(found))) @@ accounts
                   /\ response' = [op |-> "accountReactivate", status |-> 200,
                                   error |-> ""]
                   /\ UNCHANGED <<transactions, applied>>
  /\ UNCHANGED <<borrowings, initBal, inflight, serial, now>>

\* GET /api/accounts/:id
AccountGet(user, id) ==
  /\ IF FindAccount(DB, id, user) = {}
       THEN Reject("accountGet", 404, "Account not found")
       ELSE Reject("accountGet", 200, "")
  /\ UNCHANGED <<borrowings, initBal, inflight, serial, now>>

\* new Transaction({ user, account: accountId, type: 'income', category,
\* amount, originalAmount, originalCurrency, amountInUSD, description, date }):
\* the schema has no path for the four amount fields and drops them, currency
\* takes its default, and amountInMinorUnits, exchangeRateToUSD (0 here) and
\* amountInUSDMinorUnits stay undefined
SpawnedTransaction(user, accountId, category, date) ==
  [ user |-> user, account |-> accountId, type |-> "income",
    category |-> category, currency |-> "USD", exchangeRateToUSD |-> 0,
    date |-> date ]

\* the handler of POST /api/work-schedule after the work entry is saved (work
\* entries are not in the model): without an account it answers at once;
\* with one it saves the earnings transaction and, when tips > 0, the tips
\* transaction, each by a save of its own outside any session and with no
\* lookup of the account; a save the schema refuses ends the request in 500
WorkShiftHandler(db, user, accountId, date, tips) ==
  IF accountId = {} THEN [db |-> db, status |-> 200, error |-> ""]
  ELSE
  LET free     == TxIds \ DOMAIN db.transactions
      first    == CHOOSE i \in free : \A j \in free : i <= j
      second   == CHOOSE i \in free \ {first} : \A j \in free \ {first} : i <= j
      earnings == SpawnedTransaction(user, Val(accountId), "Salary", date)
      tipsTx   == SpawnedTransaction(user, Val(accountId), "Tips", date)
      db1      == [db EXCEPT !.transactions = (first :> earnings) @@ @]
      db2      == [db1 EXCEPT !.transactions = (second :> tipsTx) @@ @]
      refused  == [db |-> db, status |-> 500,
                   error |-> "Transaction validation failed"]
  IN IF ~ValidTransactionDoc(earnings) THEN refused
     ELSE IF tips <= 0 THEN [db |-> db1, status |-> 200, error |-> ""]
     ELSE IF ~ValidTransactionDoc(tipsTx) THEN [refused EXCEPT !.db = db1]
     ELSE [db |-> db2, status |-> 200, error |-> ""]

\* POST /api/work-schedule
WorkShiftCreate(user, accountId, date, tips) ==
  /\ LET h == WorkShiftHandler(DB, user, accountId, date, tips) IN
     /\ accounts' = h.db.accounts
     /\ transactions' = h.db.transactions
     /\ response' = [op |-> "workShiftCreate", status |-> h.status,
                     error |-> h.error]
     /\ UNCHANGED applied
  /\ UNCHANGED <<borrowings, initBal, inflight, serial, now>>

\* a rename, a new type, a new currency code, a deactivation
AccountMaintUpdates ==
  { NoAccountUpdate,
    [NoAccountUpdate EXCEPT !.type = {"savings"}],
    [NoAccountUpdate EXCEPT !.currency = {"EUR"}],
    [NoAccountUpdate EXCEPT !.isActive = {FALSE}] }

ForceDeleteValues == {"", "true", "false"}

BorrowingMaintRequest == [amount |-> 1000, dueDate |-> {80}]

NextMaint ==
  \/ \E u \in Users : \E req \in AccountCreateRequests(u) : AccountCreate(u, req)
  \/ \E a \in AccountIds, upd \in AccountMaintUpdates : AccountUpdate("u1", a, upd)
  \/ \E a \in AccountIds, f \in ForceDeleteValues : AccountDelete("u1", a, f)
  \/ \E a \in AccountIds : AccountReactivate("u1", a)
  \/ \E a \in AccountIds : AccountGet("u1", a)
  \/ \E req \in TxAcctRequests : TxCreate("u1", req)
  \/ \E a \in {{}, {"a1"}, {"a2"}}, tips \in {0, 500} :
       WorkShiftCreate("u1", a, 75, tips)
  \/ borrowings = EmptyMap /\ BorrowingCreate("u1", BorrowingMaintRequest)
  \/ \E id \in BorrowingIds : BorrowingPayment("u1", id, 500)
  \/ \E id \in BorrowingIds :
       BorrowingUpdate("u1", id, [NoBorrowingUpdate EXCEPT !.dueDate = {100}])
  \/ \E id \in BorrowingIds : BorrowingGet("u1", id)
  \/ \E id \in BorrowingIds : BorrowingDelete("u1", id, TRUE)

SpecMaint == Init /\ [][NextMaint]_vars

\* C19: a delete without forceDelete of an account with at least one
\* transaction keeps the record, sets isActive to false and leaves balance
\* and transactions alone; the record goes only when no transaction refers
\* to the account or forceDelete is given; a forced delete removes the
\* account and all its transactions together or changes nothing.
C19_DeleteKeepsHistory ==
  \A id \in DOMAIN accounts : \A f \in ForceDeleteValues :
    \A fail \in DeleteFailures :
      LET user == accounts[id].user
          cb == AccountDeleteCallback(DB, user, id, f)
          out == WithTransaction(DB, cb, fail)
          related == TransactionsOf(DB, id, user)
      IN /\ ~out.committed => out.db = DB
         /\ (out.committed /\ related # {} /\ f # "true")
              => /\ out.db.transactions = transactions
                 /\ out.db.accounts = [accounts EXCEPT ![id].isActive = FALSE]
         /\ id \notin DOMAIN out.db.accounts => (related = {} \/ f = "true")
         /\ (out.committed /\ f = "true")
              => /\ id \notin DOMAIN out.db.accounts
                 /\ TransactionsOf(out.db, id, user) = {}
                 /\ \A t \in DOMAIN transactions \ related :
                      /\ t \in DOMAIN out.db.transactions
                      /\ out.db.transactions[t] = transactions[t]

\* an account with history was deleted without force and is kept, inactive
C19_Witness ==
  /\ response = [op |-> "accountDelete", status |-> 200, error |-> ""]
  /\ \E a \in DOMAIN accounts :
       /\ ~accounts[a].isActive
       /\ accounts[a].balanceInMinorUnits # initBal[a]
       /\ TransactionsOf(DB, a, accounts[a].user) # {}

\* C20: every operation other than transaction create, update and delete
\* and an account update with a balance field leaves the balance of every
\* account unchanged: rename, type change, currency change, deactivation,
\* reactivation, the borrowing operations, work-shift creation and reads.
C20_BalanceFrame ==
  [][ response'.op \notin {"txCreate", "txUpdate", "txDelete"}
      => \A a \in DOMAIN accounts \cap DOMAIN accounts' :
           accounts'[a].balanceInMinorUnits = accounts[a].balanceInMinorUnits
    ]_vars

\* an account whose balance had moved was reactivated
C20_Witness ==
  /\ response = [op |-> "accountReactivate", status |-> 200, error |-> ""]
  /\ \E a \in DOMAIN accounts :
       /\ accounts[a].isActive
       /\ accounts[a].balanceInMinorUnits # initBal[a]
       /\ accounts[a].balanceInMinorUnits # 0

----------------------------------------------------------------------------
(* Balance adjustments *)

\* bodies of PUT /api/accounts/:id that carry a balance, alone or next to a
\* new currency code
BalanceUpdates ==
  { [NoAccountUpdate EXCEPT !.balance = {b}, !.currency = c] :
      b \in {0, 2000, 3000}, c \in {{}, {"EUR"}} }

\* C21: an account update that sets the balance to b' # b stores b' and, in
\* the same unit, exactly one transaction on the account with category
\* 'Balance Adjustment', amount |b' - b| in the account's currency and type
\* income if b' > b, expense otherwise; with b' = b it creates none; so an
\* account that satisfies the ledger equation satisfies it afterwards.
C21_AdjustmentKeepsLedger ==
  \A a \in DOMAIN accounts : \A upd \in BalanceUpdates :
    FreeTxIds # {} =>
      LET cb    == AccountUpdateCallback(DB, accounts[a].user, a, upd, NewTxId, now)
          out   == WithTransaction(DB, cb, 0)
          b     == accounts[a].balanceInMinorUnits
          bNew  == ToMinorUnits(Val(upd.balance))
          after == out.db.accounts[a]
          added == DOMAIN out.db.transactions \ DOMAIN transactions
      IN /\ out.committed
         /\ after.balanceInMinorUnits = bNew
         /\ \A t \in DOMAIN transactions :
              /\ t \in DOMAIN out.db.transactions
              /\ out.db.transactions[t] = transactions[t]
         /\ bNew = b => added = {}
         /\ bNew # b =>
              /\ Cardinality(added) = 1
              /\ \A t \in added :
                   LET doc == out.db.transactions[t] IN
                   /\ doc.account = a /\ doc.user = accounts[a].user
                   /\ doc.category = "Balance Adjustment"
                   /\ doc.amountInMinorUnits = Abs(bNew - b)
                   /\ doc.currency = after.currency
                   /\ doc.type = IF bNew > b THEN "income" ELSE "expense"
         /\ b = initBal[a] + SumEffects(TxOf(a), accounts[a].currency)
              => \A t \in added \cup {0} :
                   (t = 0) = (added = {})
                   => bNew = initBal[a] + SumEffects(TxOf(a), after.currency)
                               + (IF t = 0 THEN 0
                                  ELSE Effect(out.db.transactions[t], after.currency))

----------------------------------------------------------------------------
(* Ownership of the accounts that transactions refer to *)

C24_ShiftIncomeCredited ==
  \A a \in DOMAIN accounts : \A tips \in {0, 500} :
    accounts[a].isActive =>
      LET h == WorkShiftHandler(DB, accounts[a].user, {a}, 75, tips)
          added == DOMAIN h.db.transactions \ DOMAIN transactions
      IN /\ Cardinality(added) = IF tips > 0 THEN 2 ELSE 1
         /\ \A t \in added : /\ h.db.transactions[t].type = "income"
                             /\ h.db.transactions[t].account = a
         /\ h.db.accounts[a].balanceInMinorUnits > accounts[a].balanceInMinorUnits

----------------------------------------------------------------------------
(* Requests that the validation rules are meant to turn away *)

\* amounts (thousandths of a major unit) that are not positive or have a
\* third decimal place: 0, -1.00, -2.50, 0.004 and 1.004
InvalidAmounts == {0, 0 - 1000, 0 - 2500, 4, 1004}

\* bodies of POST /api/transactions with an invalid amount or currency
InvalidCreateRequests ==
  [ accountId : {"a1"}, type : {"income", "expense"}, category : {"Groceries"},
    amount : InvalidAmounts, currency : {{}, {"USD"}}, date : {75} ]
  \cup
  [ accountId : {"a1"}, type : {"income", "expense"}, category : {"Groceries"},
    amount : {1000}, currency : {{"XXX"}}, date : {75} ]

\* bodies of PUT /api/transactions/:id with an invalid amount or currency
InvalidUpdateRequests ==
  {[NoUpdate EXCEPT !.amount = {x}] : x \in InvalidAmounts}
  \cup {[NoUpdate EXCEPT !.currency = {"XXX"}]}

\* C23: a transaction create or update request whose amount is not positive
\* or has more than two decimal places, or whose currency is not USD, EUR or
\* AZN, is rejected before any transaction or balance changes.
C23_InvalidRejected ==
  /\ \A req \in InvalidCreateRequests :
       FreeTxIds # {} =>
         \/ ~validateTransaction(req)
         \/ /\ ~TxCreateOutcome("u1", req, 0).committed
            /\ TxCreateOutcome("u1", req, 0).db = DB
  /\ \A id \in DOMAIN transactions : \A upd \in InvalidUpdateRequests :
       /\ ~TxUpdateOutcome(transactions[id].user, id, upd, 0).committed
       /\ TxUpdateOutcome(transactions[id].user, id, upd, 0).db = DB

\* C25: starting from non-negative balances, after any sequence of
\* transaction and account requests every account whose type is not credit
\* has a balance of at least 0.
C25_NoOverdraft ==
  \A a \in DOMAIN accounts :
    accounts[a].type # "credit" => accounts[a].balanceInMinorUnits >= 0

\* C26: while an account is inactive no transaction update or delete changes
\* its balance or its transactions; they are rejected as a create is.
C26_InactiveIsFrozen ==
  \A id \in DOMAIN transactions :
    LET a == transactions[id].account IN
    (a \in DOMAIN accounts /\ ~accounts[a].isActive) =>
      /\ \A upd \in TxUpdateRequests :
           TxUpdateOutcome(transactions[id].user, id, upd, 0).db = DB
      /\ TxDeleteOutcome(transactions[id].user, id, 0).db = DB

\* C29: every extant transaction has an integer amountInMinorUnits above 0,
\* whatever create and update requests were served, updates of the amount
\* or of the type alone included.
C29_PositiveAmounts ==
  /\ \A t \in DOMAIN transactions : transactions[t].amountInMinorUnits > 0
  /\ \A req \in InvalidCreateRequests \cup TxCreateRequests("u1") :
       (FreeTxIds # {} /\ validateTransaction(req)) =>
         \A t \in DOMAIN TxCreateOutcome("u1", req, 0).db.transactions :
           TxCreateOutcome("u1", req, 0).db.transactions[t].amountInMinorUnits > 0
  /\ \A id \in DOMAIN transactions :
       \A upd \in InvalidUpdateRequests \cup TxUpdateRequests :
         \A t \in DOMAIN TxUpdateOutcome(transactions[id].user, id, upd, 0).db.transactions :
           TxUpdateOutcome(transactions[id].user, id, upd, 0)
             .db.transactions[t].amountInMinorUnits > 0

----------------------------------------------------------------------------
(* Payments against one borrowing served at the same time.  The handler    *)
(* uses no session: it reads the borrowing, checks the amounts it read and *)
(* saves the document, and the save writes the fields the handler changed  *)
(* whatever the stored document holds by then (the schema sets no          *)
(* optimistic concurrency).  applied records, for each request that has    *)
(* been answered, the increment the answer reported (bookkeeping).         *)

MaxPayers == 3

Payers == 1 .. MaxPayers

\* amounts of the payment requests, in thousandths of a major unit
ConcPaymentAmounts == {300, 500, 700}

InitPay ==
  /\ accounts = EmptyMap
  /\ transactions = EmptyMap
  /\ borrowings = (1 :> [ user |-> "u1", amountInMinorUnits |-> 100,
                          currency |-> "USD", dueDate |-> NoDate,
                          status |-> "pending", paidAmountInMinorUnits |-> 0 ])
  /\ initBal = EmptyMap
  /\ applied = EmptyMap
  /\ inflight = EmptyMap
  /\ serial = [accounts |-> EmptyMap, transactions |-> EmptyMap]
  /\ response = NoResponse
  /\ now = 90

\* the request arrives and Borrowing.findOne returns the stored document
PayRead(s, amount) ==
  /\ s \notin DOMAIN inflight
  /\ s \notin DOMAIN applied
  /\ inflight' = (s :> [amount |-> amount, found |-> FindBorrowing(1, "u1")])
                 @@ inflight
  /\ UNCHANGED <<accounts, transactions, borrowings, initBal, applied, serial,
                 response, now>>

\* the checks on the document that was read, the save and the answer
PayFinish(s) ==
  /\ s \in DOMAIN inflight
  /\ LET h == PaymentOn(inflight[s].found, inflight[s].amount) IN
     IF h.save = {}
       THEN /\ response' = [op |-> "borrowingPayment", status |-> h.status,
                            error |-> h.error]
            /\ applied' = (s :> 0) @@ applied
            /\ UNCHANGED borrowings
       ELSE \E fail \in {0, 1} :
              IF fail # 0
                THEN /\ response' = [op |-> "borrowingPayment", status |-> 500,
                                     error |-> "Failed to record payment"]
                     /\ applied' = (s :> 0) @@ applied
                     /\ UNCHANGED borrowings
                ELSE /\ borrowings' = (1 :> PreSave(Val(h.save), now)) @@ borrowings
                     /\ response' = [op |-> "borrowingPayment", status |-> 200,
                                     error |-> ""]
                     /\ applied' = (s :> ToMinorUnits(inflight[s].amount)) @@ applied
  /\ inflight' = Restrict(inflight, DOMAIN inflight \ {s})
  /\ UNCHANGED <<accounts, transactions, initBal, serial, now>>

NextPay ==
  \/ \E s \in Payers, amount \in ConcPaymentAmounts : PayRead(s, amount)
  \/ \E s \in Payers : PayFinish(s)

SpecPay == InitPay /\ [][NextPay]_vars

RECURSIVE SumApplied(_)
SumApplied(S) ==
  IF S = {} THEN 0
  ELSE LET s == CHOOSE x \in S : TRUE IN applied[s] + SumApplied(S \ {s})

\* C27: whatever the interleaving of payment requests against one borrowing,
\* once they are all answered the paid amount is the initial paid amount
\* plus the increments of the requests that were answered with success.
C27_NoLostPayment ==
  inflight = EmptyMap
    => borrowings[1].paidAmountInMinorUnits = 0 + SumApplied(DOMAIN applied)

\* ---------------------------------------------------------------------------
\* The response and the commit.  In the three transaction handlers the
\* response (res.status(201).json / res.json) is written as the last
\* statement INSIDE the callback handed to session.withTransaction; the
\* commit is attempted by withTransaction after the callback returned.
\* One request at a time; serial is the store as the responses sent so far
\* describe it.
\* ---------------------------------------------------------------------------
Handling == 1

InitCommit == InitConc

\* the request arrives and session.startSession() opens the unit of work
CommitBegin(r) ==
  /\ inflight = EmptyMap
  /\ r.op = "txCreate" => FreeTxIds # {}
  /\ inflight' = (Handling :> [ request |-> r,
                                newId |-> IF r.op = "txCreate" THEN NewTxId ELSE 0,
                                phase |-> "callback",
                                headersSent |-> FALSE,
                                staged |-> <<>> ])
  /\ UNCHANGED <<accounts, transactions, borrowings, initBal, applied, serial,
                 response, now>>

\* res.status(..).json(..) once the headers went out: Express throws
\* ERR_HTTP_HEADERS_SENT and the response the client holds stays as it is
Send(h, answer) == IF h.headersSent THEN response ELSE answer

\* the callback runs.  It throws (or a save is refused, or its res.json
\* finds the headers already sent): the unit is aborted and the catch
\* block answers 400.  Otherwise its last statement sends the success.
CallbackWith(h, cb, out) ==
  IF ~out.committed \/ h.headersSent
    THEN /\ response' = Send(h, [op |-> h.request.op, status |-> 400,
                                 error |-> IF out.committed
                                             THEN "ERR_HTTP_HEADERS_SENT"
                                             ELSE out.err])
         /\ inflight' = EmptyMap
         /\ serial' = serial
    ELSE /\ response' = [op |-> h.request.op,
                         status |-> IF h.request.op = "txCreate" THEN 201 ELSE 200,
                         error |-> ""]
         /\ inflight' = (Handling :> [h EXCEPT !.phase = "commit",
                                               !.headersSent = TRUE,
                                               !.staged = cb.writes])
         /\ serial' = out.db

CommitCallback ==
  /\ Handling \in DOMAIN inflight
  /\ inflight[Handling].phase = "callback"
  /\ \E fail \in {0, 1} :
       CallbackWith(inflight[Handling],
                    ConcCallback(DB, inflight[Handling].request,
                                 inflight[Handling].newId),
                    WithTransaction(DB,
                                    ConcCallback(DB, inflight[Handling].request,
                                                 inflight[Handling].newId),
                                    fail))
  /\ UNCHANGED <<accounts, transactions, borrowings, initBal, applied, now>>

\* withTransaction commits what the callback staged
CommitSucceeds ==
  /\ Handling \in DOMAIN inflight
  /\ inflight[Handling].phase = "commit"
  /\ accounts' = ApplyWrites(DB, inflight[Handling].staged).accounts
  /\ transactions' = ApplyWrites(DB, inflight[Handling].staged).transactions
  /\ inflight' = EmptyMap
  /\ UNCHANGED <<borrowings, initBal, applied, serial, response, now>>

\* the commit fails with a transient error: withTransaction drops the
\* staged writes and runs the callback again
CommitRetried ==
  /\ Handling \in DOMAIN inflight
  /\ inflight[Handling].phase = "commit"
  /\ inflight' = (Handling :> [inflight[Handling] EXCEPT !.phase = "callback",
                                                         !.staged = <<>>])
  /\ UNCHANGED <<accounts, transactions, borrowings, initBal, applied, serial,
                 response, now>>

\* the commit fails for good: withTransaction throws, the catch block calls
\* res.status(400) on a response whose headers are out
CommitFails ==
  /\ Handling \in DOMAIN inflight
  /\ inflight[Handling].phase = "commit"
  /\ response' = Send(inflight[Handling],
                      [op |-> inflight[Handling].request.op, status |-> 400,
                       error |-> "commit failed"])
  /\ inflight' = EmptyMap
  /\ UNCHANGED <<accounts, transactions, borrowings, initBal, applied, serial, now>>

NextCommit ==
  \/ \E r \in ConcRequests : CommitBegin(r)
  \/ CommitCallback
  \/ CommitSucceeds
  \/ CommitRetried
  \/ CommitFails

SpecCommit == InitCommit /\ [][NextCommit]_vars

\* C28: once a request is over, whatever the success responses sent so far
\* reported is what the store holds: a 201/200 is never held for a unit of
\* work that did not commit.
C28_SuccessMeansCommitted ==
  inflight = EmptyMap => DB = serial

\* ---------------------------------------------------------------------------
\* A store with history.  The earlier account route deleted an account with
\* Account.findOneAndDelete and left its transactions, and the earlier
\* work-schedule route stored a transaction on whatever account id it was
\* given; the migration carries such transactions over (it falls back to
\* 'USD' when the account of a transaction is not found).
\* ---------------------------------------------------------------------------
LegacyTransaction ==
  [ user |-> "u1", account |-> "a2", type |-> "income", category |-> "Salary",
    amountInMinorUnits |-> 100, currency |-> "USD", exchangeRateToUSD |-> 10000,
    amountInUSDMinorUnits |-> 100, date |-> 30 ]

\* transaction 1 of u1 is on account a2, which was deleted or is u2's
InitLegacy ==
  \E others \in {EmptyMap,
                 ("a2" :> NewAccount("u2", [type |-> "checking", balance |-> {2000},
                                            currency |-> {}]))} :
    LET account == NewAccount("u1", [type |-> "checking", balance |-> {2000},
                                      currency |-> {}])
    IN /\ accounts = ("a1" :> account) @@ others
       /\ transactions = (1 :> LegacyTransaction)
       /\ borrowings = EmptyMap
       /\ initBal = [a \in DOMAIN (("a1" :> account) @@ others) |->
                       (("a1" :> account) @@ others)[a].balanceInMinorUnits]
       /\ applied = EmptyMap
       /\ inflight = EmptyMap
       /\ serial = [accounts |-> EmptyMap, transactions |-> EmptyMap]
       /\ response = NoResponse
       /\ now = 90

NextLegacy ==
  \/ \E req \in TxCreateRequests("u1") : TxCreate("u1", req)
  \/ \E id \in TxIds, upd \in TxUpdateRequests : TxUpdate("u1", id, upd)
  \/ \E id \in TxIds : TxDelete("u1", id)

SpecLegacy == InitLegacy /\ [][NextLegacy]_vars

\* C30: deleting a transaction whose account cannot be resolved for the
\* caller (missing, or another user's) changes nothing: the transaction
\* stays and no balance moves.
C30_UnresolvedAccountAborts ==
  \A id \in DOMAIN transactions, fail \in Failures :
    ( /\ transactions[id].user = "u1"
      /\ FindAccount(DB, transactions[id].account, "u1") = {} )
    => TxDeleteOutcome("u1", id, fail).db = DB

====
